---- MODULE Spec2Model ----
(***************************************************************************)
(* DBHelper (src/js/dbhelper.js): a read-through IndexedDB cache in front  *)
(* of the restaurants / reviews API, with an offline partition for review  *)
(* submissions whose POST failed.                                          *)
(*                                                                         *)
(* The module models every static method of DBHelper that touches the      *)
(* store or the network as a chain of event-loop steps.  A step is one     *)
(* promise reaction together with the microtasks it triggers, which is the *)
(* unit the JavaScript event loop runs without interruption.               *)
(***************************************************************************)
EXTENDS Integers, Sequences, FiniteSets, TLC

\* ------------------------------------------------------------------ bounds
MaxCalls == 2        \* DBHelper calls started in one behaviour
MaxClock == 2        \* largest reading of new Date().getTime()
MaxBatch == 2        \* records in one saveToIDB(data) batch under StoreSpec
MaxRestaurants == 3  \* records in a collection under QuerySpec
MaxQueryCalls == 1   \* DBHelper calls in one behaviour of QuerySpec
MaxReviewCalls == 3  \* DBHelper calls in one behaviour of ReviewSpec
MaxSeedReviews == 1  \* reviews the server holds per restaurant before any POST

\* -------------------------------------------------------------- constants
IDB_OBJECT == "restaurantObject"
IDB_REVIEWS_OBJECT == "reviewsObject"
IDB_REVIEWS_OBJECT_OFFLINE == "reviewsOfflineObject"

\* ------------------------------------------------------------ JSON values
\* A JavaScript value as the callbacks see it: null / undefined, an array of
\* records, one record, or a JSON object that is not an array (the body of
\* an error response).
Null == [tag |-> "null"]
Arr(s) == [tag |-> "seq", val |-> s]
Rec(r) == [tag |-> "rec", val |-> r]
Obj == [tag |-> "obj"]
Err(name) == [tag |-> "err", val |-> name]

IsNull(v) == v.tag = "null"
IsArr(v) == v.tag = "seq"

Range(s) == {s[i] : i \in 1..Len(s)}

\* ----------------------------------------------------------- sample data
Restaurant(i, c, n) == [id |-> i, cuisine_type |-> c, neighborhood |-> n]

\* The collections GET /restaurants may serve (one is fixed per behaviour).
Catalogs ==
  { << >>,
    << Restaurant(2, "c1", "n1"), Restaurant(1, "c2", "n2"), Restaurant(3, "c1", "n1") >> }

RestaurantIds == {1, 2}      \* restaurant_id values used for reviews
LookupIds == {1, 4}          \* ids asked of fetchRestaurantById (4 is never served)
CuisineArgs == {"c1", "all"}
NeighborhoodArgs == {"n1", "all"}

\* A review as the server stores it: the posted fields plus a server id.
\* `text` identifies the addReview call that submitted it (0: seeded).
ServerReview(i, rid, t) == [id |-> i, restaurant_id |-> rid, text |-> t]

\* Records of a keyed partition in key order, as IDBObjectStore.getAll and
\* IDBIndex.getAll return them.
RECURSIVE SortedByKey(_, _)
SortedByKey(store, keys) ==
  IF keys = {} THEN << >>
  ELSE LET k == CHOOSE x \in keys : \A y \in keys : x <= y
       IN << store[k] >> \o SortedByKey(store, keys \ {k})


\* ---------------------------------------------------------------- state
VARIABLES
  swAvailable,        \* navigator.serviceWorker is defined (line 30)
  portDefined,        \* the free identifier `port` of line 133 is bound
  online,             \* the RemoteClient is reachable
  clock,              \* the last value new Date().getTime() returned
  remoteRestaurants,  \* the collection GET /restaurants serves
  serverReviews,      \* the reviews the server holds
  idb,                \* the three object stores of restaurantDatabase
  idbQueue,           \* idb.open requests not yet answered, oldest first
  calls,              \* the DBHelper calls made so far
  remoteDelivered     \* history: last (null, R) delivered from the remote

vars == << swAvailable, portDefined, online, clock,
           remoteRestaurants, serverReviews, idb, idbQueue, calls,
           remoteDelivered >>

StoreNames == {IDB_OBJECT, IDB_REVIEWS_OBJECT, IDB_REVIEWS_OBJECT_OFFLINE}

\* The empty partition: a function with no key.
EmptyStore == [k \in {} |-> Null]

\* upgradeDatabase callback of idb.open: three object stores, all empty.
UpgradeDatabase == [s \in StoreNames |-> EmptyStore]

\* keyPath of each object store as createObjectStore declares it.
KeyPath(storeName) ==
  IF storeName = IDB_REVIEWS_OBJECT_OFFLINE THEN "updatedAt" ELSE "id"

\* ------------------------------------------------------ PersistentStore
\* A put that appends under a fresh key instead of replacing by key.
IDBPutAppend(store, keyPath, value) ==
  IF value.tag = "rec" /\ keyPath \in DOMAIN value.val
  THEN LET k == 1 + Cardinality(DOMAIN store)
                + (IF DOMAIN store = {} THEN 0
                   ELSE CHOOSE x \in DOMAIN store : \A y \in DOMAIN store : y <= x)
       IN [x \in DOMAIN store \cup {k} |-> IF x = k THEN value.val ELSE store[x]]
  ELSE store

\* IDBObjectStore.put on a store with an in-line key: an upsert under the
\* value's key; a value without the key path raises DataError and stores
\* nothing.
IDBPut(store, keyPath, value) ==
  IF value.tag = "rec" /\ keyPath \in DOMAIN value.val
  THEN LET k == value.val[keyPath]
       IN [x \in DOMAIN store \cup {k} |-> IF x = k THEN value.val ELSE store[x]]
  ELSE store

\* A batch put that stores the first record only.
IDBPutHead(store, keyPath, records) ==
  IF records = << >> THEN store
  ELSE IDBPut(store, keyPath, Rec(Head(records)))

\* data.forEach(restaurant => store.put(restaurant)) in one transaction.
RECURSIVE IDBPutAll(_, _, _)
IDBPutAll(store, keyPath, records) ==
  IF records = << >> THEN store
  ELSE IDBPutAll(IDBPut(store, keyPath, Rec(Head(records))), keyPath, Tail(records))

\* saveToIDB whose default case stores nothing.
SaveToIDBNoDefault(db, hasDb, data, storeToSaveInto) ==
  IF ~hasDb THEN db
  ELSE IF storeToSaveInto \in {IDB_REVIEWS_OBJECT, IDB_REVIEWS_OBJECT_OFFLINE}
    THEN [db EXCEPT ![storeToSaveInto] = IDBPut(@, KeyPath(storeToSaveInto), data)]
  ELSE db

\* The body of saveToIDB once openIDBConnection has resolved with `db`.
SaveToIDB(db, hasDb, data, storeToSaveInto) ==
  IF ~hasDb THEN db
  ELSE IF storeToSaveInto = IDB_REVIEWS_OBJECT
    THEN [db EXCEPT ![IDB_REVIEWS_OBJECT] =
            IDBPut(@, KeyPath(IDB_REVIEWS_OBJECT), data)]
  ELSE IF storeToSaveInto = IDB_REVIEWS_OBJECT_OFFLINE
    THEN [db EXCEPT ![IDB_REVIEWS_OBJECT_OFFLINE] =
            IDBPut(@, KeyPath(IDB_REVIEWS_OBJECT_OFFLINE), data)]
  ELSE IF IsArr(data)
    THEN [db EXCEPT ![IDB_OBJECT] = IDBPutAll(@, KeyPath(IDB_OBJECT), data.val)]
  ELSE db    \* data.forEach is not a function: the promise rejects unobserved

\* store.getAll() on restaurantObject.
FetchCachedRestaurants(db) ==
  SortedByKey(db[IDB_OBJECT], DOMAIN db[IDB_OBJECT])

\* A cached read that also returns the pending writes of the restaurant.
FetchCachedReviewsAndPending(db, id) ==
  SortedByKey(db[IDB_REVIEWS_OBJECT],
              {k \in DOMAIN db[IDB_REVIEWS_OBJECT] :
                 db[IDB_REVIEWS_OBJECT][k].restaurant_id = id})
  \o SortedByKey(db[IDB_REVIEWS_OBJECT_OFFLINE],
                 {k \in DOMAIN db[IDB_REVIEWS_OBJECT_OFFLINE] :
                    db[IDB_REVIEWS_OBJECT_OFFLINE][k].restaurant_id = id})

\* index("restaurant_id").getAll(id) on reviewsObject.
FetchCachedReviews(db, id) ==
  SortedByKey(db[IDB_REVIEWS_OBJECT],
              {k \in DOMAIN db[IDB_REVIEWS_OBJECT] :
                 db[IDB_REVIEWS_OBJECT][k].restaurant_id = id})

\* ----------------------------------------------------------- QueryLayer
\* One invocation of a completion callback.
Cb(error, data) == [err |-> error, data |-> data]

\* A lookup that returns the last record with the id.
FindLast(restaurants, id) ==
  LET hits == SelectSeq(restaurants, LAMBDA r : r.id = id)
  IN IF hits = << >> THEN Null ELSE Rec(hits[Len(hits)])

\* restaurants.find(r => r.id == id)
Find(restaurants, id) ==
  LET hits == SelectSeq(restaurants, LAMBDA r : r.id = id)
  IN IF hits = << >> THEN Null ELSE Rec(Head(hits))

ByCuisine(restaurants, cuisine) ==
  SelectSeq(restaurants, LAMBDA r : r.cuisine_type = cuisine)

ByNeighborhood(restaurants, neighborhood) ==
  SelectSeq(restaurants, LAMBDA r : r.neighborhood = neighborhood)

\* A two-field filter with no "all" sentinel.
ByBothLiterally(restaurants, cuisine, neighborhood) ==
  SelectSeq(restaurants,
            LAMBDA r : r.cuisine_type = cuisine /\ r.neighborhood = neighborhood)

\* results.filter by cuisine_type unless "all", then by neighborhood unless
\* "all" (lines 263-271).
ByCuisineAndNeighborhood(restaurants, cuisine, neighborhood) ==
  LET r1 == IF cuisine # "all" THEN ByCuisine(restaurants, cuisine) ELSE restaurants
  IN IF neighborhood # "all" THEN ByNeighborhood(r1, neighborhood) ELSE r1

\* A dedup that keeps the last occurrence of each value.
RECURSIVE UniqueLast(_, _)
UniqueLast(values, i) ==
  IF i > Len(values) THEN << >>
  ELSE (IF \E j \in (i + 1)..Len(values) : values[j] = values[i]
        THEN << >> ELSE << values[i] >>)
       \o UniqueLast(values, i + 1)

\* values.filter((v, i) => values.indexOf(v) == i)
RECURSIVE UniqueFrom(_, _)
UniqueFrom(values, i) ==
  IF i > Len(values) THEN << >>
  ELSE (IF \E j \in 1..(i - 1) : values[j] = values[i] THEN << >> ELSE << values[i] >>)
       \o UniqueFrom(values, i + 1)

Neighborhoods(restaurants) ==
  UniqueFrom([i \in 1..Len(restaurants) |-> restaurants[i].neighborhood], 1)

Cuisines(restaurants) ==
  UniqueFrom([i \in 1..Len(restaurants) |-> restaurants[i].cuisine_type], 1)

\* -------------------------------------------- callbacks of fetchRestaurants
\* The operations that call DBHelper.fetchRestaurants, with their inputs.
NoArgs == [id |-> 0, cuisine |-> "all", neighborhood |-> "all"]

RestaurantOps ==
  {[op |-> "fetchRestaurants", args |-> NoArgs],
   [op |-> "fetchNeighborhoods", args |-> NoArgs],
   [op |-> "fetchCuisines", args |-> NoArgs]}
  \cup {[op |-> "fetchRestaurantById", args |-> [NoArgs EXCEPT !.id = i]] :
          i \in LookupIds}
  \cup {[op |-> "fetchRestaurantByCuisine", args |-> [NoArgs EXCEPT !.cuisine = c]] :
          c \in CuisineArgs \ {"all"}}
  \cup {[op |-> "fetchRestaurantByNeighborhood",
         args |-> [NoArgs EXCEPT !.neighborhood = n]] :
          n \in NeighborhoodArgs \ {"all"}}
  \cup {[op |-> "fetchRestaurantByCuisineAndNeighborhood",
         args |-> [NoArgs EXCEPT !.cuisine = c, !.neighborhood = n]] :
          c \in CuisineArgs, n \in NeighborhoodArgs}

\* What a caller's callback receives when no restaurant has the id.
NotFoundCb == Cb(Err("Restaurant does not exist"), Null)

\* An error branch that passes an empty result along with the error.
ErrorCbWithData(error) == Cb(error, Arr(<< >>))

\* callback(error, null) of every `if (error)` branch.
ErrorCb(error) == Cb(error, Null)

\* The else branch of the callback each operation hands to fetchRestaurants,
\* run with error = null and restaurants an array: the caller's one callback
\* invocation.
ResultCb(op, args, restaurants) ==
  CASE op = "fetchRestaurantById" ->
         LET restaurant == Find(restaurants, args.id)
         IN IF IsNull(restaurant) THEN NotFoundCb ELSE Cb(Null, restaurant)
    [] op = "fetchRestaurantByCuisine" ->
         Cb(Null, Arr(ByCuisine(restaurants, args.cuisine)))
    [] op = "fetchRestaurantByNeighborhood" ->
         Cb(Null, Arr(ByNeighborhood(restaurants, args.neighborhood)))
    [] op = "fetchRestaurantByCuisineAndNeighborhood" ->
         Cb(Null, Arr(ByCuisineAndNeighborhood(restaurants, args.cuisine,
                                               args.neighborhood)))
    [] op = "fetchNeighborhoods" -> Cb(Null, Arr(Neighborhoods(restaurants)))
    [] op = "fetchCuisines" -> Cb(Null, Arr(Cuisines(restaurants)))
    [] OTHER -> Cb(Null, Arr(restaurants))

\* One run of the callback `cb` that fetchRestaurants was given: the
\* invocations of the caller's callback it makes, and whether it throws
\* (restaurants.find / .filter / .map of a value that is no array).
RestaurantsCallback(op, args, error, restaurants) ==
  IF op = "fetchRestaurants"
  THEN [threw |-> FALSE, user |-> << Cb(error, restaurants) >>]
  ELSE IF ~IsNull(error)
  THEN [threw |-> FALSE, user |-> << ErrorCb(error) >>]
  ELSE IF ~IsArr(restaurants)
  THEN [threw |-> TRUE, user |-> << >>]
  ELSE [threw |-> FALSE, user |-> << ResultCb(op, args, restaurants.val) >>]

\* .catch(error => cb(error, null)) of fetchRestaurants (lines 179-181).
FetchRestaurantsCatch(op, args, error) ==
  [cbs |-> << Cb(error, Null) >>,
   user |-> RestaurantsCallback(op, args, error, Null).user]

\* .then(restaurants => cb(null, restaurants)) of fetchRestaurants followed
\* by its .catch, which also sees what cb itself throws.
FetchRestaurantsThen(op, args, restaurants) ==
  LET first == RestaurantsCallback(op, args, Null, restaurants)
      again == FetchRestaurantsCatch(op, args, Err("TypeError"))
  IN IF first.threw
     THEN [cbs |-> << Cb(Null, restaurants) >> \o again.cbs,
           user |-> first.user \o again.user]
     ELSE [cbs |-> << Cb(Null, restaurants) >>, user |-> first.user]

\* ------------------------------------------------ callbacks of fetchReviews
\* cb(null, reviews) of the cache hit (line 120).
FetchReviewsHitCb(reviews) == Cb(Null, Arr(reviews))

\* cb(null, data) of fetchReviewsFromAPI (line 97).
FetchReviewsFromAPICb(data) == Cb(Null, data)

\* .catch(e => cb(e, null)) of fetchReviewsFromAPI (line 100) and of
\* fetchReviews (lines 126-129).
FetchReviewsCatchCb(error) == Cb(error, Null)

\* --------------------------------------------------- callbacks of addReview
\* cb(null) of the .then of addReview (line 145).
AddReviewThenCbs == << Cb(Null, Null) >>

\* A .catch that reports the failure to the caller.
AddReviewCatchCbsReport(error) == << Cb(error, Null) >>

\* The .catch of addReview (lines 147-152) never invokes cb and returns
\* undefined, so the promise addReview returned is fulfilled.
AddReviewCatchCbs(error) == << >>

AddReviewCatchPromise(error) == "resolved"

\* A stamp that sets updatedAt alone.
StampUpdatedOnly(data, updatedAt, createdAt) ==
  [k \in DOMAIN data \cup {"updatedAt"} |->
     IF k = "updatedAt" THEN updatedAt ELSE data[k]]

\* data["updatedAt"] = new Date().getTime(); data["createdAt"] = ... (148-149)
Stamp(data, updatedAt, createdAt) ==
  [k \in DOMAIN data \cup {"updatedAt", "createdAt"} |->
     IF k = "updatedAt" THEN updatedAt
     ELSE IF k = "createdAt" THEN createdAt
     ELSE data[k]]

\* The object store the .catch of addReview saves the stamped record into.
AddReviewCatchStore == IDB_REVIEWS_OBJECT_OFFLINE

\* The object store the .then of addReview saves the response body into.
AddReviewThenStore == IDB_REVIEWS_OBJECT

\* ------------------------------------------------------------ RemoteClient
\* How a request can end: a 2xx response, a non-2xx response whose body is
\* JSON, a non-2xx response whose body is not JSON, or a network error
\* (fetch rejects).  fetch resolves for every response, whatever its status.
Outcomes(reachable) ==
  IF reachable THEN {"ok", "httpjson", "httpraw"} ELSE {"neterr"}

\* GET /reviews?restaurant_id=id, in id order.
RemoteReviews(reviews, id) ==
  LET mine == {r \in reviews : r.restaurant_id = id}
      byId == [k \in {r.id : r \in mine} |-> CHOOSE r \in mine : r.id = k]
  IN SortedByKey(byId, DOMAIN byId)

\* POST /reviews: the created record, with the id the server assigns.
RemoteCreate(reviews, data) ==
  [k \in DOMAIN data \cup {"id"} |->
     IF k = "id" THEN Cardinality(reviews) + 1 ELSE data[k]]

\* ------------------------------------------------------------------ calls
NewCall(kind, op, args, pc) ==
  [kind |-> kind, op |-> op, args |-> args, pc |-> pc,
   reqs |-> 0,              \* RemoteClient requests the call has issued
   cbs |-> << >>,           \* invocations of the cb given to DBHelper
   user |-> << >>,          \* invocations of the caller's callback
   prior |-> remoteDelivered,
   outcome |-> "none",      \* how the call's request ended
   resp |-> Null,           \* body of the POST response
   data |-> Null,           \* the record given to addReview
   threw |-> FALSE,         \* the call threw synchronously
   promise |-> "pending"]   \* the promise the call returned

\* Every store access of DBHelper starts with openIDBConnection.  IndexedDB
\* answers the open requests on one database in the order they were made,
\* and a transaction waits for the read-write transactions on its store that
\* were created before it, so the accesses take effect in the order of
\* their open requests: idbQueue is that order.  With no service worker the
\* promise is already resolved and its reactions run in the same order.
OpenRequest(kind, c, store, data) ==
  [kind |-> kind, call |-> c, store |-> store, data |-> data]

Init ==
  /\ swAvailable \in BOOLEAN
  /\ portDefined \in BOOLEAN
  /\ online = TRUE
  /\ clock = 1
  /\ remoteRestaurants \in Catalogs
  /\ \E n \in 0..MaxSeedReviews :
       serverReviews = {ServerReview((rid - 1) * n + j, rid, 0) :
                          rid \in RestaurantIds, j \in 1..n}
  /\ idb = UpgradeDatabase
  /\ idbQueue = << >>
  /\ calls = << >>
  /\ remoteDelivered = Null

\* ------------------------------------------------------- fetchRestaurants
\* DBHelper.fetchRestaurants(cb), directly or through one of the query
\* operations: fetchCachedRestaurants opens the database.
StartFetchRestaurants(o, limit) ==
  /\ Len(calls) < limit
  /\ calls' = Append(calls, NewCall("fetchRestaurants", o.op, o.args, "cached"))
  /\ idbQueue' = Append(idbQueue,
       OpenRequest("fetchCachedRestaurants", Len(calls) + 1, IDB_OBJECT, Null))
  /\ UNCHANGED << swAvailable, portDefined, online, clock,
                  remoteRestaurants, serverReviews, idb, remoteDelivered >>

FetchRestaurants(o) == StartFetchRestaurants(o, MaxCalls)

\* openIDBConnection resolves for fetchCachedRestaurants, and the first
\* .then of fetchRestaurants runs on what it returns.
FetchCachedRestaurantsThen ==
  /\ idbQueue # << >>
  /\ Head(idbQueue).kind = "fetchCachedRestaurants"
  /\ LET c == Head(idbQueue).call
         me == calls[c]
         restaurants == FetchCachedRestaurants(idb)
     IN IF ~swAvailable
        THEN \* db is undefined: restaurants.length throws a TypeError
             LET d == FetchRestaurantsCatch(me.op, me.args, Err("TypeError"))
             IN calls' = [calls EXCEPT ![c].pc = "done", ![c].cbs = d.cbs,
                                       ![c].user = d.user,
                                       ![c].promise = "resolved"]
        ELSE IF Len(restaurants) > 0
        THEN LET d == FetchRestaurantsThen(me.op, me.args, Arr(restaurants))
             IN calls' = [calls EXCEPT ![c].pc = "done", ![c].cbs = d.cbs,
                                       ![c].user = d.user,
                                       ![c].promise = "resolved"]
        ELSE calls' = [calls EXCEPT ![c].pc = "fetching", ![c].reqs = @ + 1]
  /\ idbQueue' = Tail(idbQueue)
  /\ UNCHANGED << swAvailable, portDefined, online, clock,
                  remoteRestaurants, serverReviews, idb, remoteDelivered >>

\* The request of fetchRestaurantsFromAPI ends.
FetchRestaurantsFromAPI(c, outcome) ==
  /\ calls[c].kind = "fetchRestaurants"
  /\ calls[c].pc = "fetching"
  /\ outcome \in Outcomes(online)
  /\ LET me == calls[c]
         restaurants == IF outcome = "ok" THEN Arr(remoteRestaurants) ELSE Obj
         d == CASE outcome = "neterr" ->
                     FetchRestaurantsCatch(me.op, me.args, Err("NetworkError"))
                [] outcome = "httpraw" ->
                     FetchRestaurantsCatch(me.op, me.args, Err("SyntaxError"))
                [] OTHER -> FetchRestaurantsThen(me.op, me.args, restaurants)
     IN /\ calls' = [calls EXCEPT ![c].pc = "done", ![c].outcome = outcome,
                                  ![c].cbs = d.cbs, ![c].user = d.user,
                                  ![c].promise = "resolved"]
        /\ idbQueue' = IF outcome \in {"ok", "httpjson"}
                       THEN Append(idbQueue, OpenRequest("saveToIDB", c, IDB_OBJECT,
                                                         restaurants))
                       ELSE idbQueue
        /\ remoteDelivered' = IF outcome = "ok" THEN restaurants ELSE remoteDelivered
  /\ UNCHANGED << swAvailable, portDefined, online, clock,
                  remoteRestaurants, serverReviews, idb >>

\* ----------------------------------------------------------- fetchReviews
StartFetchReviews(id, limit) ==
  /\ Len(calls) < limit
  /\ calls' = Append(calls, NewCall("fetchReviews", "fetchReviews",
                                    [NoArgs EXCEPT !.id = id], "cached"))
  /\ idbQueue' = Append(idbQueue,
       OpenRequest("fetchCachedReviews", Len(calls) + 1, IDB_REVIEWS_OBJECT, Null))
  /\ UNCHANGED << swAvailable, portDefined, online, clock,
                  remoteRestaurants, serverReviews, idb, remoteDelivered >>

FetchReviews(id) == StartFetchReviews(id, MaxCalls)

\* openIDBConnection resolves for fetchCachedReviews, and the .then of
\* fetchReviews runs on what it returns.
FetchCachedReviewsThen ==
  /\ idbQueue # << >>
  /\ Head(idbQueue).kind = "fetchCachedReviews"
  /\ LET c == Head(idbQueue).call
         me == calls[c]
         reviews == FetchCachedReviews(idb, me.args.id)
     IN IF ~swAvailable
        THEN \* db is undefined: reviews.length throws a TypeError
             LET d == << FetchReviewsCatchCb(Err("TypeError")) >>
             IN calls' = [calls EXCEPT ![c].pc = "done", ![c].cbs = d,
                                       ![c].user = d, ![c].promise = "resolved"]
        ELSE IF Len(reviews) > 0
        THEN LET d == << FetchReviewsHitCb(reviews) >>
             IN calls' = [calls EXCEPT ![c].pc = "done", ![c].cbs = d,
                                       ![c].user = d, ![c].promise = "resolved"]
        ELSE calls' = [calls EXCEPT ![c].pc = "fetching", ![c].reqs = @ + 1]
  /\ idbQueue' = Tail(idbQueue)
  /\ UNCHANGED << swAvailable, portDefined, online, clock,
                  remoteRestaurants, serverReviews, idb, remoteDelivered >>

\* The saveToIDB calls of the for-in loop of fetchReviewsFromAPI: one per
\* element of the array, or one for the member of an error body.
ReviewSaves(c, data) ==
  IF IsArr(data)
  THEN [i \in 1..Len(data.val) |->
          OpenRequest("saveToIDB", c, IDB_REVIEWS_OBJECT, Rec(data.val[i]))]
  ELSE << OpenRequest("saveToIDB", c, IDB_REVIEWS_OBJECT, Obj) >>

\* The request of fetchReviewsFromAPI ends.
FetchReviewsFromAPI(c, outcome) ==
  /\ calls[c].kind = "fetchReviews"
  /\ calls[c].pc = "fetching"
  /\ outcome \in Outcomes(online)
  /\ LET me == calls[c]
         data == IF outcome = "ok"
                 THEN Arr(RemoteReviews(serverReviews, me.args.id)) ELSE Obj
         d == CASE outcome = "neterr" -> << FetchReviewsCatchCb(Err("NetworkError")) >>
                [] outcome = "httpraw" -> << FetchReviewsCatchCb(Err("SyntaxError")) >>
                [] OTHER -> << FetchReviewsFromAPICb(data) >>
     IN /\ calls' = [calls EXCEPT ![c].pc = "done", ![c].outcome = outcome,
                                  ![c].cbs = d, ![c].user = d,
                                  ![c].promise = "resolved"]
        /\ idbQueue' = IF outcome \in {"ok", "httpjson"}
                       THEN idbQueue \o ReviewSaves(c, data)
                       ELSE idbQueue
  /\ UNCHANGED << swAvailable, portDefined, online, clock,
                  remoteRestaurants, serverReviews, idb, remoteDelivered >>

\* -------------------------------------------------------------- addReview
\* DBHelper.addReview(data, cb).  The URL template reads `port`, which the
\* file never declares (it declares PORT): unless the global environment
\* binds it, evaluating the argument of fetch throws a ReferenceError and
\* no request is made.
StartAddReview(rid, limit) ==
  /\ Len(calls) < limit
  /\ LET c == Len(calls) + 1
         data == Rec([restaurant_id |-> rid, text |-> c])
         call == NewCall("addReview", "addReview", [NoArgs EXCEPT !.id = rid],
                         "posting")
     IN calls' = Append(calls,
          IF portDefined
          THEN [call EXCEPT !.data = data, !.reqs = 1]
          ELSE [call EXCEPT !.data = data, !.pc = "done", !.threw = TRUE,
                            !.promise = "none"])
  /\ UNCHANGED << swAvailable, portDefined, online, clock,
                  remoteRestaurants, serverReviews, idb, idbQueue,
                  remoteDelivered >>

AddReview(rid) == StartAddReview(rid, MaxCalls)

\* The POST ends with a response: the .then of addReview starts res.json()
\* and invokes cb(null) whatever the status of the response is.
AddReviewThen(c, outcome) ==
  /\ calls[c].kind = "addReview"
  /\ calls[c].pc = "posting"
  /\ outcome \in Outcomes(online) \ {"neterr"}
  /\ LET created == RemoteCreate(serverReviews, calls[c].data.val)
     IN /\ serverReviews' = IF outcome = "ok" THEN serverReviews \cup {created}
                            ELSE serverReviews
        /\ calls' = [calls EXCEPT
             ![c].pc = "json", ![c].outcome = outcome,
             ![c].resp = CASE outcome = "ok" -> Rec(created)
                           [] outcome = "httpjson" -> Obj
                           [] OTHER -> Err("SyntaxError"),
             ![c].cbs = AddReviewThenCbs, ![c].user = AddReviewThenCbs,
             ![c].promise = "resolved"]
  /\ UNCHANGED << swAvailable, portDefined, online, clock,
                  remoteRestaurants, idb, idbQueue, remoteDelivered >>

\* res.json() settles: its .then saves the parsed body into reviewsObject;
\* a body that is no JSON rejects a promise nobody observes.
AddReviewJson(c) ==
  /\ calls[c].kind = "addReview"
  /\ calls[c].pc = "json"
  /\ calls' = [calls EXCEPT ![c].pc = "done"]
  /\ idbQueue' = IF calls[c].resp.tag = "err" THEN idbQueue
                 ELSE Append(idbQueue, OpenRequest("saveToIDB", c, AddReviewThenStore,
                                                   calls[c].resp))
  /\ UNCHANGED << swAvailable, portDefined, online, clock,
                  remoteRestaurants, serverReviews, idb, remoteDelivered >>

\* The POST ends with a network error: the .catch stamps the caller's record
\* with two readings of the clock, updatedAt first, and saves it into
\* reviewsOfflineObject.  A reading is never below the one before it.
AddReviewCatch(c, updatedAt, createdAt) ==
  /\ calls[c].kind = "addReview"
  /\ calls[c].pc = "posting"
  /\ "neterr" \in Outcomes(online)
  /\ clock <= updatedAt
  /\ updatedAt <= createdAt
  /\ createdAt <= MaxClock
  /\ LET stamped == Rec(Stamp(calls[c].data.val, updatedAt, createdAt))
     IN /\ calls' = [calls EXCEPT
             ![c].pc = "done", ![c].outcome = "neterr", ![c].data = stamped,
             ![c].cbs = AddReviewCatchCbs(Err("NetworkError")),
             ![c].user = AddReviewCatchCbs(Err("NetworkError")),
             ![c].promise = AddReviewCatchPromise(Err("NetworkError"))]
        /\ idbQueue' = Append(idbQueue,
             OpenRequest("saveToIDB", c, AddReviewCatchStore, stamped))
  /\ clock' = createdAt
  /\ UNCHANGED << swAvailable, portDefined, online,
                  remoteRestaurants, serverReviews, idb, remoteDelivered >>

\* -------------------------------------------------------------- saveToIDB
\* openIDBConnection resolves for a saveToIDB call and its transaction runs.
SaveToIDBThen ==
  /\ idbQueue # << >>
  /\ Head(idbQueue).kind = "saveToIDB"
  /\ idb' = SaveToIDB(idb, swAvailable, Head(idbQueue).data, Head(idbQueue).store)
  /\ idbQueue' = Tail(idbQueue)
  /\ UNCHANGED << swAvailable, portDefined, online, clock,
                  remoteRestaurants, serverReviews, calls, remoteDelivered >>

\* ------------------------------------------------------------ environment
GoOffline ==
  /\ online
  /\ online' = FALSE
  /\ UNCHANGED << swAvailable, portDefined, clock, remoteRestaurants,
                  serverReviews, idb, idbQueue, calls, remoteDelivered >>

GoOnline ==
  /\ ~online
  /\ online' = TRUE
  /\ UNCHANGED << swAvailable, portDefined, clock,
                  remoteRestaurants, serverReviews, idb, idbQueue, calls,
                  remoteDelivered >>

\* ------------------------------------------------------------------ Next
CallIds == 1..Len(calls)
AllOutcomes == Outcomes(TRUE) \cup Outcomes(FALSE)

Next ==
  \/ \E o \in RestaurantOps : FetchRestaurants(o)
  \/ FetchCachedRestaurantsThen
  \/ \E c \in CallIds, outcome \in AllOutcomes : FetchRestaurantsFromAPI(c, outcome)
  \/ \E id \in RestaurantIds : FetchReviews(id)
  \/ FetchCachedReviewsThen
  \/ \E c \in CallIds, outcome \in AllOutcomes : FetchReviewsFromAPI(c, outcome)
  \/ \E rid \in RestaurantIds : AddReview(rid)
  \/ \E c \in CallIds, outcome \in AllOutcomes : AddReviewThen(c, outcome)
  \/ \E c \in CallIds : AddReviewJson(c)
  \/ \E c \in CallIds, u \in 1..MaxClock, t \in 1..MaxClock : AddReviewCatch(c, u, t)
  \/ SaveToIDBThen
  \/ GoOffline
  \/ GoOnline

Spec == Init /\ [][Next]_vars

\* The offline write queue on its own: addReview and fetchReviews calls, with
\* no fetchRestaurants call in the same behaviour.
QueueNext ==
  \/ \E id \in RestaurantIds : FetchReviews(id)
  \/ FetchCachedReviewsThen
  \/ \E c \in CallIds, outcome \in AllOutcomes : FetchReviewsFromAPI(c, outcome)
  \/ \E rid \in RestaurantIds : AddReview(rid)
  \/ \E c \in CallIds, outcome \in AllOutcomes : AddReviewThen(c, outcome)
  \/ \E c \in CallIds : AddReviewJson(c)
  \/ \E c \in CallIds, u \in 1..MaxClock, t \in 1..MaxClock : AddReviewCatch(c, u, t)
  \/ SaveToIDBThen
  \/ GoOffline
  \/ GoOnline

\* The event loop runs every reaction that is ready, and every request
\* settles: weak fairness on the steps of the calls, none on starting a call
\* or on connectivity.
Reactions ==
  \/ FetchCachedReviewsThen
  \/ SaveToIDBThen
  \/ \E c \in CallIds, outcome \in AllOutcomes : FetchReviewsFromAPI(c, outcome)
  \/ \E c \in CallIds, outcome \in AllOutcomes : AddReviewThen(c, outcome)
  \/ \E c \in CallIds : AddReviewJson(c)
  \/ \E c \in CallIds, u \in 1..MaxClock, t \in 1..MaxClock : AddReviewCatch(c, u, t)

FairSpec == Init /\ [][QueueNext]_vars /\ WF_vars(Reactions)

\* ================================================================ claims
ReadCalls == {c \in CallIds : calls[c].kind \in {"fetchRestaurants", "fetchReviews"}}
RestaurantCalls == {c \in CallIds : calls[c].kind = "fetchRestaurants"}
ReviewCalls == {c \in CallIds : calls[c].kind = "fetchReviews"}
AddCalls == {c \in CallIds : calls[c].kind = "addReview"}

Normal == idb[IDB_REVIEWS_OBJECT]
Pending == idb[IDB_REVIEWS_OBJECT_OFFLINE]

\* The pending partition holds the record of call c with both timestamps.
Queued(c) ==
  \E k \in DOMAIN Pending :
    /\ Pending[k].text = c
    /\ {"createdAt", "updatedAt"} \subseteq DOMAIN Pending[k]

\* Call c has no saveToIDB request waiting.
Settled(c) ==
  /\ calls[c].pc = "done"
  /\ \A i \in 1..Len(idbQueue) : idbQueue[i].call # c

\* Every cb invocation of call c is (null, an array with the records of R).
DeliversOnly(c, R) ==
  \A i \in 1..Len(calls[c].cbs) :
    LET cb == calls[c].cbs[i]
    IN /\ IsNull(cb.err)
       /\ IsArr(cb.data)
       /\ Range(cb.data.val) = Range(R)

\* C1 as stated: with the store available, a fetchRestaurants call started
\* after some call delivered (null, R) from the RemoteClient delivers R and
\* issues no request.
C1_CacheHitAnyR ==
  swAvailable =>
    \A c \in RestaurantCalls :
      IsArr(calls[c].prior) =>
        /\ calls[c].reqs = 0
        /\ DeliversOnly(c, calls[c].prior.val)

\* C1 as amended: the same, for a record set R that is not empty.
C1_CacheHit ==
  swAvailable =>
    \A c \in RestaurantCalls :
      (IsArr(calls[c].prior) /\ calls[c].prior.val # << >>) =>
        /\ calls[c].reqs = 0
        /\ DeliversOnly(c, calls[c].prior.val)

C1_Witness ==
  /\ swAvailable
  /\ \E c \in RestaurantCalls :
       /\ IsArr(calls[c].prior)
       /\ calls[c].prior.val # << >>
       /\ calls[c].pc = "done"
       /\ calls[c].cbs # << >>

\* The saveToIDB request of the .catch of call c is waiting for the store.
SaveWaiting(c) ==
  \E i \in 1..Len(idbQueue) :
    idbQueue[i].call = c /\ idbQueue[i].store = IDB_REVIEWS_OBJECT_OFFLINE

\* C2: with the store available, an addReview call whose POST failed with a
\* network error (its .catch has run and its save is under way) leads to an
\* entry for its record in the pending partition that carries createdAt
\* and updatedAt.
C2_FailedPostQueued ==
  \A c \in 1..MaxCalls :
    (/\ swAvailable
     /\ c \in AddCalls
     /\ calls[c].outcome = "neterr"
     /\ SaveWaiting(c)) ~> Queued(c)

C2_Witness ==
  \E c \in AddCalls : swAvailable /\ calls[c].outcome = "neterr" /\ Queued(c)

\* C3: a record whose POST failed is in no state in the normal reviews
\* partition, and no fetchReviews call delivers it.
C3_PendingInvisible ==
  \A c \in AddCalls :
    calls[c].outcome = "neterr" =>
      /\ \A k \in DOMAIN Normal : Normal[k].text # c
      /\ \A d \in ReviewCalls : \A i \in 1..Len(calls[d].cbs) :
           IsArr(calls[d].cbs[i].data) =>
             \A j \in 1..Len(calls[d].cbs[i].data.val) :
               calls[d].cbs[i].data.val[j].text # c

C3_Witness ==
  \E c \in AddCalls, d \in ReviewCalls :
    /\ c < d
    /\ calls[c].outcome = "neterr"
    /\ Queued(c)
    /\ calls[d].args.id = calls[c].args.id
    /\ calls[d].cbs # << >>
    /\ IsArr(calls[d].cbs[1].data)
    /\ calls[d].cbs[1].data.val # << >>

\* C4: when addReview has invoked cb(null) for a POST that succeeded, the
\* record the server returned is in the normal reviews partition.
C4_VisibleAtCallback ==
  swAvailable =>
    \A c \in AddCalls :
      (calls[c].outcome = "ok" /\ calls[c].cbs # << >>) =>
        calls[c].resp.val.id \in DOMAIN Normal

\* C5: with the store unavailable, a fetchRestaurants or fetchReviews call
\* that the RemoteClient did not fail ends with one request made and
\* (null, data) delivered, never an error.
C5_DegradedReads ==
  ~swAvailable =>
    \A c \in ReadCalls :
      (calls[c].pc = "done" /\ calls[c].outcome \in {"none", "ok"}) =>
        /\ calls[c].reqs = 1
        /\ calls[c].cbs # << >>
        /\ \A i \in 1..Len(calls[c].cbs) :
             IsNull(calls[c].cbs[i].err) /\ ~IsNull(calls[c].cbs[i].data)

\* C6: a fetchRestaurants or fetchReviews call whose request failed (network
\* error or non-2xx response) delivers a non-null error with null data, and
\* leaves no write that changes a partition.
C6_RemoteFailureSurfaces ==
  \A c \in ReadCalls :
    calls[c].outcome \in {"neterr", "httpjson", "httpraw"} =>
      /\ calls[c].cbs # << >>
      /\ \A i \in 1..Len(calls[c].cbs) :
           ~IsNull(calls[c].cbs[i].err) /\ IsNull(calls[c].cbs[i].data)
      /\ \A i \in 1..Len(idbQueue) :
           idbQueue[i].call = c =>
             SaveToIDB(idb, swAvailable, idbQueue[i].data, idbQueue[i].store) = idb

\* C7: if the RemoteClient becomes and stays reachable, every entry of the
\* pending partition is eventually deleted from it.
C7_Reconciled ==
  (<>[]online) =>
    \A k \in 1..MaxClock :
      [](k \in DOMAIN Pending => <>(k \notin DOMAIN Pending))

\* No step of DBHelper removes a key from the pending partition.
PendingKept == [][DOMAIN Pending \subseteq DOMAIN Pending']_vars

\* C8: an addReview call whose POST failed and whose record is in the
\* pending partition has not thrown, has no rejected promise and has
\* invoked no callback with a non-null error.
C8_FailureNotReported ==
  \A c \in AddCalls :
    (calls[c].outcome = "neterr" /\ Queued(c)) =>
      /\ ~calls[c].threw
      /\ calls[c].promise # "rejected"
      /\ \A i \in 1..Len(calls[c].user) : IsNull(calls[c].user[i].err)

C8_Witness ==
  \E c \in AddCalls :
    calls[c].outcome = "neterr" /\ Queued(c) /\ calls[c].promise = "resolved"

\* C9: once an addReview call whose POST got a non-2xx response has
\* finished all its work, its record is in the pending partition with both
\* timestamps, and nothing of the response is in the normal partition.
C9_Non2xxQueued ==
  swAvailable =>
    \A c \in AddCalls :
      (calls[c].outcome \in {"httpjson", "httpraw"} /\ Settled(c)) =>
        /\ Queued(c)
        /\ \A k \in DOMAIN Normal : Normal[k].text # c

\* C10: every invocation of a read callback, by fetchRestaurants and
\* fetchReviews or by a query operation on top of fetchRestaurants, passes
\* exactly one of error and data as non-null.
C10_TwoChannel ==
  \A c \in ReadCalls :
    /\ \A i \in 1..Len(calls[c].cbs) :
         IsNull(calls[c].cbs[i].err) # IsNull(calls[c].cbs[i].data)
    /\ \A i \in 1..Len(calls[c].user) :
         IsNull(calls[c].user[i].err) # IsNull(calls[c].user[i].data)

C10_Witness ==
  \E c \in RestaurantCalls, d \in ReadCalls :
    /\ calls[c].op # "fetchRestaurants"
    /\ calls[c].user # << >>
    /\ ~IsNull(calls[c].user[1].err)
    /\ calls[d].user # << >>
    /\ ~IsNull(calls[d].user[1].data)


\* ============================================== saveToIDB, called directly
\* DBHelper.saveToIDB(S) called twice on a restaurants partition left by
\* earlier sessions: the inputs of StoreSpec.
StoreRecords ==
  {Restaurant(i, c, "n1") : i \in 1..2, c \in {"c1", "c2"}}

RECURSIVE Batches(_)
Batches(n) ==
  IF n = 0 THEN {<< >>}
  ELSE Batches(n - 1)
       \cup {Append(b, r) : b \in {x \in Batches(n - 1) : Len(x) = n - 1},
                            r \in StoreRecords}

\* The partitions restaurantObject can hold: any records, each under its id.
Partitions ==
  {p \in UNION {[K -> StoreRecords] : K \in SUBSET {r.id : r \in StoreRecords}} :
     \A k \in DOMAIN p : p[k].id = k}

StoreInit ==
  /\ swAvailable \in BOOLEAN
  /\ portDefined = TRUE
  /\ online = TRUE
  /\ clock = 1
  /\ remoteRestaurants = << >>
  /\ serverReviews = {}
  /\ \E p \in Partitions : idb = [UpgradeDatabase EXCEPT ![IDB_OBJECT] = p]
  /\ \E S \in Batches(MaxBatch) :
       idbQueue = << OpenRequest("saveToIDB", 0, IDB_OBJECT, Arr(S)),
                     OpenRequest("saveToIDB", 0, IDB_OBJECT, Arr(S)) >>
  /\ calls = << >>
  /\ remoteDelivered = Null

StoreNext == SaveToIDBThen

StoreSpec == StoreInit /\ [][StoreNext]_vars

\* C11: applying saveToIDB(S) a second time leaves every partition as the
\* first application left it (same keys, same values, same record count).
C11_BackfillIdempotent == [][Len(idbQueue) = 1 => idb' = idb]_vars

\* The first saveToIDB(S) has stored a non-empty S and the second is due.
C11_Witness ==
  /\ swAvailable
  /\ Len(idbQueue) = 1
  /\ Head(idbQueue).data.val # << >>
  /\ \A r \in Range(Head(idbQueue).data.val) : r.id \in DOMAIN idb[IDB_OBJECT]


\* ======================================================== query operations
\* The collections of QuerySpec: every sequence of up to
\* MaxRestaurants records, ids and field values repeating.
QueryRecords ==
  {Restaurant(i, f[1], f[2]) :
     i \in {1, 2}, f \in {<<"c1", "n1">>, <<"c2", "n1">>, <<"c1", "n2">>}}

RECURSIVE QueryCatalogs(_)
QueryCatalogs(n) ==
  IF n = 0 THEN {<< >>}
  ELSE QueryCatalogs(n - 1)
       \cup {Append(b, r) : b \in {x \in QueryCatalogs(n - 1) : Len(x) = n - 1},
                            r \in QueryRecords}

QueryInit ==
  /\ swAvailable \in BOOLEAN
  /\ portDefined = TRUE
  /\ online = TRUE
  /\ clock = 1
  /\ remoteRestaurants \in QueryCatalogs(MaxRestaurants)
  /\ serverReviews = {}
  /\ idb = UpgradeDatabase
  /\ idbQueue = << >>
  /\ calls = << >>
  /\ remoteDelivered = Null

QueryNext ==
  \/ \E o \in RestaurantOps : StartFetchRestaurants(o, MaxQueryCalls)
  \/ FetchCachedRestaurantsThen
  \/ \E c \in CallIds, outcome \in AllOutcomes : FetchRestaurantsFromAPI(c, outcome)
  \/ SaveToIDBThen
  \/ GoOffline
  \/ GoOnline

QuerySpec == QueryInit /\ [][QueryNext]_vars

\* The calls of operation op whose fetchRestaurants succeeded with an array.
Answered(op) ==
  {c \in RestaurantCalls :
     /\ calls[c].op = op
     /\ calls[c].pc = "done"
     /\ IsNull(calls[c].cbs[1].err)
     /\ IsArr(calls[c].cbs[1].data)}

\* The array fetchRestaurants handed to the callback of call c.
Fetched(c) == calls[c].cbs[1].data.val

\* C12: fetchRestaurantById(id) on a successful fetch gives (null, r) with r
\* the first record whose id is id, and the NotFound error with null data
\* exactly when no record has the id; a failed fetch passes its own error,
\* never NotFound.
C12_ById ==
  /\ \A c \in Answered("fetchRestaurantById") :
       LET rs == Fetched(c)
           at == {i \in 1..Len(rs) : rs[i].id = calls[c].args.id}
       IN /\ Len(calls[c].user) = 1
          /\ at = {} <=> calls[c].user[1] = NotFoundCb
          /\ at # {} =>
               \E i \in at : /\ \A j \in at : i <= j
                             /\ calls[c].user[1] = Cb(Null, Rec(rs[i]))
  /\ \A c \in RestaurantCalls \ Answered("fetchRestaurantById") :
       \A k \in 1..Len(calls[c].user) : calls[c].user[k] # NotFoundCb

\* A lookup answered from a collection that holds the id twice, with
\* different records.
C12_Witness ==
  \E c \in Answered("fetchRestaurantById") :
    \E i, j \in 1..Len(Fetched(c)) :
      /\ i < j
      /\ Fetched(c)[i].id = calls[c].args.id
      /\ Fetched(c)[j].id = calls[c].args.id
      /\ Fetched(c)[i] # Fetched(c)[j]
      /\ calls[c].user = << Cb(Null, Rec(Fetched(c)[i])) >>

\* C13: fetchRestaurantByCuisineAndNeighborhood("all", "all") gives the full
\* collection; with neighborhood "all" it gives what
\* fetchRestaurantByCuisine(cuisine) gives, and with cuisine "all" what
\* fetchRestaurantByNeighborhood(neighborhood) gives.
C13_AllSentinel ==
  \A c \in Answered("fetchRestaurantByCuisineAndNeighborhood") :
    LET rs == Fetched(c)
        a == calls[c].args
        alone == IF a.neighborhood = "all"
                 THEN [op |-> "fetchRestaurantByCuisine",
                       args |-> [NoArgs EXCEPT !.cuisine = a.cuisine]]
                 ELSE [op |-> "fetchRestaurantByNeighborhood",
                       args |-> [NoArgs EXCEPT !.neighborhood = a.neighborhood]]
    IN /\ (a.cuisine = "all" /\ a.neighborhood = "all")
            => calls[c].user = << Cb(Null, Arr(rs)) >>
       /\ (a.cuisine = "all") # (a.neighborhood = "all")
            => calls[c].user
                 = RestaurantsCallback(alone.op, alone.args, Null, Arr(rs)).user

\* A two-field call with one real filter that keeps some records and drops
\* others.
C13_Witness ==
  \E c \in Answered("fetchRestaurantByCuisineAndNeighborhood") :
    /\ (calls[c].args.cuisine = "all") # (calls[c].args.neighborhood = "all")
    /\ Len(calls[c].user) = 1
    /\ calls[c].user[1].data.val # << >>
    /\ calls[c].user[1].data.val # Fetched(c)

\* The field values of a collection, in collection order.
FieldValues(op, rs) ==
  [i \in 1..Len(rs) |-> IF op = "fetchNeighborhoods"
                        THEN rs[i].neighborhood ELSE rs[i].cuisine_type]

\* C14: fetchNeighborhoods and fetchCuisines give every value of the field
\* that occurs in the sequence exactly once, in order of first appearance,
\* and no other value.
C14_StableDedup ==
  \A op \in {"fetchNeighborhoods", "fetchCuisines"} :
    \A c \in Answered(op) :
      LET values == FieldValues(op, Fetched(c))
          first(v) == CHOOSE i \in 1..Len(values) :
                        values[i] = v /\ \A j \in 1..(i - 1) : values[j] # v
      IN /\ Len(calls[c].user) = 1
         /\ IsNull(calls[c].user[1].err)
         /\ LET u == calls[c].user[1].data.val
            IN /\ Range(u) = Range(values)
               /\ \A i, j \in 1..Len(u) : i < j => first(u[i]) < first(u[j])

\* A sequence whose first value comes back after another one: [A, B, A].
C14_Witness ==
  \E op \in {"fetchNeighborhoods", "fetchCuisines"} :
    \E c \in Answered(op) :
      LET values == FieldValues(op, Fetched(c))
      IN /\ Len(values) = 3
         /\ values[1] = values[3]
         /\ values[1] # values[2]
         /\ calls[c].user = << Cb(Null, Arr(<< values[1], values[2] >>)) >>


\* ====================================================== concurrent misses
\* Two fetchRestaurants calls that both missed the cache and were both
\* answered 2xx by the RemoteClient.
BothMissed(c, d) ==
  /\ c # d
  /\ calls[c].outcome = "ok"
  /\ calls[d].outcome = "ok"

\* The collection C as a partition keyed by id.
AsPartition(C) ==
  [k \in {C[i].id : i \in 1..Len(C)} |-> CHOOSE r \in Range(C) : r.id = k]

\* C15: two fetchRestaurants calls that both miss an empty partition while
\* the RemoteClient serves C both deliver (null, C), and once both backfills
\* are done the restaurants partition is C, whichever backfill came last.
C15_ConcurrentMisses ==
  \A c, d \in RestaurantCalls :
    BothMissed(c, d) =>
      /\ calls[c].cbs = << Cb(Null, Arr(remoteRestaurants)) >>
      /\ (Settled(c) /\ Settled(d)) => idb[IDB_OBJECT] = AsPartition(remoteRestaurants)

\* Both calls missed, both backfills of a non-empty C are done.
C15_Witness ==
  \E c, d \in RestaurantCalls :
    /\ BothMissed(c, d)
    /\ Settled(c)
    /\ Settled(d)
    /\ remoteRestaurants # << >>
    /\ calls[d].cbs = << Cb(Null, Arr(remoteRestaurants)) >>
    /\ DOMAIN idb[IDB_OBJECT] # {}


\* ================================================== readers and backfills
\* fetchReviews and addReview calls with the store available and the
\* RemoteClient reachable throughout, one call more than in Spec.
ReviewInit ==
  /\ swAvailable = TRUE
  /\ portDefined = TRUE
  /\ online = TRUE
  /\ clock = 1
  /\ remoteRestaurants = << >>
  /\ \E n \in 0..MaxSeedReviews :
       serverReviews = {ServerReview((rid - 1) * n + j, rid, 0) :
                          rid \in RestaurantIds, j \in 1..n}
  /\ idb = UpgradeDatabase
  /\ idbQueue = << >>
  /\ calls = << >>
  /\ remoteDelivered = Null

ReviewNext ==
  \/ \E id \in RestaurantIds : StartFetchReviews(id, MaxReviewCalls)
  \/ FetchCachedReviewsThen
  \/ \E c \in CallIds, outcome \in AllOutcomes : FetchReviewsFromAPI(c, outcome)
  \/ \E rid \in RestaurantIds : StartAddReview(rid, MaxReviewCalls)
  \/ \E c \in CallIds, outcome \in AllOutcomes : AddReviewThen(c, outcome)
  \/ \E c \in CallIds : AddReviewJson(c)
  \/ SaveToIDBThen

ReviewSpec == ReviewInit /\ [][ReviewNext]_vars

\* Call c got the result set S from the RemoteClient and its backfill is
\* under way: a saveToIDB of the call has not been carried out yet.
Backfilling(c) ==
  /\ c \in ReadCalls
  /\ calls[c].outcome = "ok"
  /\ \E i \in 1..Len(idbQueue) :
       idbQueue[i].kind = "saveToIDB" /\ idbQueue[i].call = c

\* The records the cached read at the head of idbQueue is about to get.
HeadReads ==
  LET rd == Head(idbQueue)
  IN IF rd.kind = "fetchCachedReviews"
     THEN Range(FetchCachedReviews(idb, calls[rd.call].args.id))
     ELSE Range(FetchCachedRestaurants(idb))

\* C16: a cached read of fetchReviews or fetchRestaurants made while another
\* call backfills the result set S of the same collection (the same
\* restaurant, for reviews) gets none of S or all of S, never a non-empty
\* strict subset of S.
C16_BatchAtomic ==
  (/\ swAvailable
   /\ idbQueue # << >>
   /\ Head(idbQueue).kind \in {"fetchCachedReviews", "fetchCachedRestaurants"})
  => \A c \in ReadCalls \ {Head(idbQueue).call} :
       (/\ Backfilling(c)
        /\ calls[c].kind = calls[Head(idbQueue).call].kind
        /\ calls[c].args.id = calls[Head(idbQueue).call].args.id)
       => LET S == Range(calls[c].cbs[1].data.val)
          IN ~(HeadReads # {} /\ HeadReads \subseteq S /\ HeadReads # S)


\* ================================================= backfill and callback
\* The partition a read call backfills.
PartitionOf(c) ==
  IF calls[c].kind = "fetchRestaurants" THEN IDB_OBJECT ELSE IDB_REVIEWS_OBJECT

\* C17: when fetchRestaurants or fetchReviews has invoked its callback with
\* remote data D (store available), every record of D is in the partition.
C17_BackfillBeforeCallback ==
  swAvailable =>
    \A c \in ReadCalls :
      (calls[c].outcome = "ok" /\ calls[c].cbs # << >>) =>
        \A r \in Range(calls[c].cbs[1].data.val) :
          /\ r.id \in DOMAIN idb[PartitionOf(c)]
          /\ idb[PartitionOf(c)][r.id] = r

\* C18: with the store available, every addReview call whose POST failed and
\* whose save has been carried out has its own entry in the pending
\* partition, also when two failures read the same clock value.
C18_PendingUnique ==
  swAvailable =>
    \A c \in AddCalls :
      (calls[c].outcome = "neterr" /\ Settled(c)) => Queued(c)

\* Call c gets its (null, data) in this step.
Delivered(c) ==
  /\ c \in ReviewCalls'
  /\ calls'[c].cbs # << >>
  /\ c \in CallIds => calls[c].cbs = << >>
  /\ IsNull(calls'[c].cbs[1].err)
  /\ IsArr(calls'[c].cbs[1].data)

\* C19: a fetchReviews(P) call that delivers (null, data) delivers every
\* review the RemoteClient holds for P at that moment.
C19_CacheComplete ==
  [][\A c \in 1..Len(calls') :
       Delivered(c) =>
         \A r \in serverReviews' :
           r.restaurant_id = calls'[c].args.id
             => r \in Range(calls'[c].cbs[1].data.val)]_vars

\* C20: a fetchRestaurants or fetchReviews call that has run to its end has
\* invoked its callback exactly once.
C20_ExactlyOnce ==
  \A c \in ReadCalls : calls[c].pc = "done" => Len(calls[c].cbs) = 1

====
